---- MODULE Spec2Model ----
(***************************************************************************)
(* Model of scripts/create-pipeline-image.py: discovery of the GA_image    *)
(* files, preparation of the panels, layout, rendering of the two rows and *)
(* the final write, one run after another over the same assets directory.  *)
(*                                                                         *)
(* File names are sequences of character codes, so that the glob match,    *)
(* Path.stem, str.replace, int() and the comparison of strings are         *)
(* computed the way Python computes them.                                  *)
(***************************************************************************)
EXTENDS Integers, Sequences, FiniteSets, TLC

\* ------------------------------------------------------------------ bounds

\* Largest numbered series GA_image.png, GA_image1.png, ... a directory holds.
MaxSeries == 28
\* Largest series that is also tried with an entry outside the series.
MaxMixed == 6
\* Directories of at most this many matching files are enumerated by glob in
\* every order; it is also the size of the directories of SpecDiscover.
MaxPermuted == 3
\* Longest suffix over the digits 0 and 1 in the name pool of SpecDiscover.
MaxSuffixLen == 1
\* Images whose names fall in the same class modulo this period share a size.
ProfilePeriod == 2
\* Number of runs of main() over the same directory.
MaxRuns == 2
\* Largest original width and height of the images of SpecResize.
MaxDim == 12

\* ------------------------------------------------------- program constants

PIPELINE_HEIGHT == 340
ARROW_WIDTH == 10
PADDING == 12
ROW_GAP == 20
LETTER_WIDTH == 18
\* The key sort_key gives a stem whose suffix int() rejects.
NON_NUMERIC_KEY == 999
\* Panels of row 1: the 3 of min(3, n).
ROW1_MAX == 3
\* The last step labelled with a letter: chr(ord("A") + step - 1) up to 26.
LETTER_STEPS == 26
\* Save at 2x scale.
scale == 2

\* "GA_image", the literal part of IMAGE_GLOB and of sort_key.
GA_image == <<71, 65, 95, 105, 109, 97, 103, 101>>
\* ".png", the end of IMAGE_GLOB.
DOT_PNG == <<46, 112, 110, 103>>
\* "protein-visualizer-pipeline.png", the name of OUTPUT_PATH inside assets.
OUTPUT_NAME == <<112, 114, 111, 116, 101, 105, 110, 45, 118, 105, 115, 117, 97,
                 108, 105, 122, 101, 114, 45, 112, 105, 112, 101, 108, 105, 110,
                 101, 46, 112, 110, 103>>

\* Character codes int() and Path.stem look at.
DOT == 46
PLUS == 43
MINUS == 45
UNDERSCORE == 95
ZERO == 48
NINE == 57
UPPER_A == 65
Whitespace == {9, 10, 11, 12, 13, 32}

\* ---------------------------------------------------------- string helpers

Max(a, b) == IF a >= b THEN a ELSE b

Min(a, b) == IF a <= b THEN a ELSE b

StartsWith(s, p) == Len(s) >= Len(p) /\ SubSeq(s, 1, Len(p)) = p

EndsWith(s, p) == Len(s) >= Len(p) /\ SubSeq(s, Len(s) - Len(p) + 1, Len(s)) = p

\* Python's < on str: by code point, a proper prefix first.
RECURSIVE StrLess(_, _)
StrLess(a, b) ==
    IF b = <<>> THEN FALSE
    ELSE IF a = <<>> THEN TRUE
    ELSE IF Head(a) # Head(b) THEN Head(a) < Head(b)
    ELSE StrLess(Tail(a), Tail(b))

\* str(n) for n >= 0: the decimal numeral, as character codes.
RECURSIVE Str(_)
Str(n) == IF n < 10 THEN <<ZERO + n>> ELSE Str(n \div 10) \o <<ZERO + (n % 10)>>

\* A pattern that takes every PNG file of the directory.
MUT_MatchesGlob(name) == EndsWith(name, DOT_PNG)

\* fnmatch of a directory entry against IMAGE_GLOB = "GA_image*.png".
MatchesGlob(name) ==
    /\ Len(name) >= Len(GA_image) + Len(DOT_PNG)
    /\ StartsWith(name, GA_image)
    /\ EndsWith(name, DOT_PNG)

\* Path.stem: the name without its last suffix (the part from the last dot,
\* when that dot is neither the first nor the last character).
LastDot(name) ==
    LET dots == {k \in 1..Len(name) : name[k] = DOT}
    IN IF dots = {} THEN 0 ELSE CHOOSE k \in dots : \A j \in dots : j <= k

Stem(name) ==
    LET k == LastDot(name)
    IN IF k > 1 /\ k < Len(name) THEN SubSeq(name, 1, k - 1) ELSE name

\* stem.replace("GA_image", ""): every occurrence removed, left to right.
RECURSIVE Replace(_)
Replace(s) ==
    IF s = <<>> THEN <<>>
    ELSE IF StartsWith(s, GA_image)
         THEN Replace(SubSeq(s, Len(GA_image) + 1, Len(s)))
         ELSE <<Head(s)>> \o Replace(Tail(s))

\* int(s) on the characters modelled here: surrounding whitespace stripped,
\* one optional sign, then decimal digits with single underscores between
\* digits. ok = FALSE is ValueError.
RECURSIVE StripLeft(_)
StripLeft(s) ==
    IF s # <<>> /\ Head(s) \in Whitespace THEN StripLeft(Tail(s)) ELSE s

RECURSIVE StripRight(_)
StripRight(s) ==
    IF s # <<>> /\ s[Len(s)] \in Whitespace
    THEN StripRight(SubSeq(s, 1, Len(s) - 1)) ELSE s

IsDigit(c) == c >= ZERO /\ c <= NINE

DigitsOk(d) ==
    /\ d # <<>>
    /\ \A k \in 1..Len(d) : IsDigit(d[k]) \/ d[k] = UNDERSCORE
    /\ IsDigit(d[1]) /\ IsDigit(d[Len(d)])
    /\ \A k \in 1..(Len(d) - 1) : ~(d[k] = UNDERSCORE /\ d[k + 1] = UNDERSCORE)

RECURSIVE DigitsValue(_)
DigitsValue(d) ==
    IF d = <<>> THEN 0
    ELSE IF d[Len(d)] = UNDERSCORE THEN DigitsValue(SubSeq(d, 1, Len(d) - 1))
    ELSE 10 * DigitsValue(SubSeq(d, 1, Len(d) - 1)) + (d[Len(d)] - ZERO)

ParseInt(s) ==
    LET t == StripRight(StripLeft(s))
        signed == t # <<>> /\ Head(t) \in {PLUS, MINUS}
        d == IF signed THEN Tail(t) ELSE t
    IN IF DigitsOk(d)
       THEN [ok |-> TRUE,
             val |-> IF signed /\ Head(t) = MINUS THEN 0 - DigitsValue(d)
                     ELSE DigitsValue(d)]
       ELSE [ok |-> FALSE, val |-> 0]

\* ------------------------------------------------------------ discovery

\* A sort by the stem alone, numerals compared as strings.
MUT_sort_key(name) == <<0, Stem(name)>>

\* sort_key(p): (number, stem).
sort_key(name) ==
    LET stem == Stem(name)
        suffix == Replace(stem)
    IN IF stem = GA_image THEN <<0, stem>>
       ELSE IF suffix = <<>> THEN <<0, stem>>
       ELSE IF ParseInt(suffix).ok THEN <<ParseInt(suffix).val, stem>>
       ELSE <<NON_NUMERIC_KEY, stem>>

\* Python's < on the tuples (int, str).
KeyLess(a, b) == a[1] < b[1] \/ (a[1] = b[1] /\ StrLess(a[2], b[2]))

\* list.sort(key=sort_key) computes the key of every element once, compares
\* the keys alone and is stable: an element goes before the first one whose
\* key is strictly greater.
RECURSIVE SortedInsert(_, _)
SortedInsert(e, sorted) ==
    IF sorted = <<>> THEN <<e>>
    ELSE IF KeyLess(e.key, Head(sorted).key) THEN <<e>> \o sorted
    ELSE <<Head(sorted)>> \o SortedInsert(e, Tail(sorted))

RECURSIVE SortKeyed(_)
SortKeyed(keyed) ==
    IF keyed = <<>> THEN <<>>
    ELSE SortedInsert(keyed[Len(keyed)], SortKeyed(SubSeq(keyed, 1, Len(keyed) - 1)))

SortPaths(paths) ==
    LET keyed == [k \in 1..Len(paths) |-> [key |-> sort_key(paths[k]), path |-> paths[k]]]
        sorted == SortKeyed(keyed)
    IN [k \in 1..Len(paths) |-> sorted[k].path]

\* The entries of the assets directory that ASSETS_BASE.glob(IMAGE_GLOB) yields.
Glob(entries) == {name \in entries : MatchesGlob(name)}

\* discover_images(), given the order in which glob listed the matches.
discover_images(listing) == SortPaths(listing)

\* ---------------------------------------------------------- preparation

\* A resize that rounds the proportional width to the nearest integer.
MUT_resize_to_height(img, target_h) ==
    [w |-> (2 * img.w * target_h + img.h) \div (2 * img.h), h |-> target_h]

\* resize_to_height(img, target_h): the size of the returned image; int()
\* truncates the quotient of the two positive numbers (a float, which is the
\* exact quotient to well within 1/h for every size an image can have).
resize_to_height(img, target_h) ==
    IF img.h = target_h THEN [w |-> img.w, h |-> img.h]
    ELSE [w |-> (img.w * target_h) \div img.h, h |-> target_h]

\* --------------------------------------------------------------- layout

RECURSIVE SumWidths(_)
SumWidths(p_list) ==
    IF p_list = <<>> THEN 0
    ELSE LETTER_WIDTH + Head(p_list).w + SumWidths(Tail(p_list))

\* main.row_width(p_list).
row_width(p_list) == SumWidths(p_list) + ARROW_WIDTH * Max(0, Len(p_list) - 1)

\* row1 = panels[: min(3, n)] and row2 = panels[len(row1) :].
Row1Of(ps) == SubSeq(ps, 1, Min(ROW1_MAX, Len(ps)))

Row2Of(ps) == SubSeq(ps, Len(Row1Of(ps)) + 1, Len(ps))

\* A canvas as wide as row 1, whatever row 2 is.
MUT_total_width(r1, r2) == row_width(r1) + PADDING * 2

\* total_width and total_height of the canvas.
total_width(r1, r2) ==
    Max(row_width(r1), IF r2 # <<>> THEN row_width(r2) ELSE 0) + PADDING * 2

total_height(r2) ==
    IF r2 # <<>> THEN (PIPELINE_HEIGHT * 2) + ROW_GAP + PADDING * 2
    ELSE PIPELINE_HEIGHT + PADDING * 2

\* The centering offset without its lower limit of 0.
MUT_row2_start_x(r1, r2) == PADDING + (row_width(r1) - row_width(r2)) \div 2

\* row2_start_x = PADDING + max(0, (w1 - w2) // 2).
row2_start_x(r1, r2) == PADDING + Max(0, (row_width(r1) - row_width(r2)) \div 2)

\* Letters that start again at A past Z.
MUT_LetterText(step) == <<UPPER_A + ((step - 1) % LETTER_STEPS)>>

\* The text draw_section_letter draws for a step.
LetterText(step) ==
    IF step <= LETTER_STEPS THEN <<UPPER_A + step - 1>> ELSE Str(step)

\* A pass that draws the arrow after every panel, the last of the row too.
MUT_RowStepDraws(p_list, idx, x, y, first_step, r) ==
    << [kind |-> "letter", row |-> r, step |-> first_step + idx,
        x |-> x, y |-> y, w |-> LETTER_WIDTH, h |-> PIPELINE_HEIGHT,
        text |-> <<UPPER_A + first_step + idx - 1>>],
       [kind |-> "panel", row |-> r, step |-> first_step + idx,
        x |-> x + LETTER_WIDTH, y |-> y, w |-> p_list[idx + 1].w,
        h |-> p_list[idx + 1].h, text |-> <<>>],
       [kind |-> "arrow", row |-> r, step |-> first_step + idx,
        x |-> x + LETTER_WIDTH + p_list[idx + 1].w,
        y |-> y + PIPELINE_HEIGHT \div 2, w |-> ARROW_WIDTH, h |-> 0,
        text |-> <<>>] >>

\* What one pass of the loop of draw_row draws at cursor x for the panel of
\* 0-based index idx of p_list: the letter, the panel and, when another panel
\* follows in the row, the arrow.
RowStepDraws(p_list, idx, x, y, first_step, r) ==
    LET panel == p_list[idx + 1]
        right == x + LETTER_WIDTH + panel.w
    IN  << [kind |-> "letter", row |-> r, step |-> first_step + idx,
            x |-> x, y |-> y, w |-> LETTER_WIDTH, h |-> PIPELINE_HEIGHT,
            text |-> LetterText(first_step + idx)],
           [kind |-> "panel", row |-> r, step |-> first_step + idx,
            x |-> x + LETTER_WIDTH, y |-> y, w |-> panel.w, h |-> panel.h,
            text |-> <<>>] >>
        \o (IF idx < Len(p_list) - 1
            THEN << [kind |-> "arrow", row |-> r, step |-> first_step + idx,
                     x |-> right, y |-> y + PIPELINE_HEIGHT \div 2,
                     w |-> ARROW_WIDTH, h |-> 0, text |-> <<>>] >>
            ELSE <<>>)

\* The cursor after that pass.
RowStepCursor(p_list, idx, x) ==
    x + LETTER_WIDTH + p_list[idx + 1].w
      + (IF idx < Len(p_list) - 1 THEN ARROW_WIDTH ELSE 0)

\* ----------------------------------------------------------------- state

VARIABLES
    dirExists,    \* ASSETS_BASE.exists()
    files,        \* the names of the entries of the assets directory
    profile,      \* the image each entry decodes to, by class of its name
    output,       \* the content of the file at OUTPUT_PATH, or Absent
    run,          \* the number of the current run of main()
    prev,         \* the outcome of the previous run, or NoOutcome
    pc,           \* the place of the current run in main()
    result,       \* "running", "return0", "return1" or "raised"
    stages,       \* the stages the current run entered, in order
    output0,      \* the content of the output file when the run started
    writes,       \* the number of times the run saved the output file
    image_paths,  \* main.image_paths
    panels,       \* main.panels, the sizes of the prepared images
    row1, row2,   \* main.row1, main.row2
    canvas,       \* the size of main.canvas, or NoCanvas
    row,          \* the row draw_row is drawing: 0 (none), 1 or 2
    row_start,    \* draw_row's start_x, start_y and step_start
    i,            \* draw_row's loop index
    x,            \* draw_row's cursor
    drawn         \* what was drawn on the canvas, in order

vars == <<dirExists, files, profile, output, run, prev, pc, result, stages,
          output0, writes, image_paths, panels, row1, row2, canvas, row,
          row_start, i, x, drawn>>

env == <<dirExists, profile>>

locals == <<image_paths, panels, row1, row2, canvas, row, row_start, i, x, drawn>>

Absent == [present |-> FALSE, w |-> 0, h |-> 0, drawn |-> <<>>]

\* An output file left by something else than this run.
Stale == [present |-> TRUE, w |-> 0, h |-> 0, drawn |-> <<>>]

NoCanvas == [w |-> 0, h |-> 0]

NoRowStart == [x |-> 0, y |-> 0, step |-> 0]

NoOutcome == [result |-> "none"]

\* What a run leaves behind for the comparison with the next one.
Outcome ==
    [result |-> result, image_paths |-> image_paths, panels |-> panels,
     row1 |-> row1, row2 |-> row2, canvas |-> canvas, drawn |-> drawn,
     written |-> writes > 0, output |-> output]

\* ------------------------------------------------------- the directories

RECURSIVE SumCodes(_)
SumCodes(s) == IF s = <<>> THEN 0 ELSE Head(s) + SumCodes(Tail(s))

\* The image a directory entry decodes to.
ImageOf(name) == profile[SumCodes(name) % ProfilePeriod]

\* An 11x340 image (already of the pipeline's height), a 2x3 image (whose
\* proportional width 226.67 is no integer) and a file Image.open rejects.
ImageKinds ==
    { [ok |-> TRUE, w |-> 11, h |-> PIPELINE_HEIGHT],
      [ok |-> TRUE, w |-> 2, h |-> 3],
      [ok |-> FALSE, w |-> 0, h |-> 0] }

InputName(suffix) == GA_image \o suffix \o DOT_PNG

\* GA_image.png, GA_image1.png, ..., n files in all.
SeriesDir(n) ==
    {InputName(IF k = 0 THEN <<>> ELSE Str(k)) : k \in 0..(n - 1)}

\* "notes.txt", "GA_imagex.png", "GA_image01.png" and a stale output file.
ExtraNames ==
    { OUTPUT_NAME,
      <<110, 111, 116, 101, 115, 46, 116, 120, 116>>,
      InputName(<<120>>),
      InputName(<<48, 49>>) }

\* Every series, and the short ones with one more entry beside them.
Directories ==
    {SeriesDir(n) : n \in 0..MaxSeries}
    \cup {SeriesDir(n) \cup {e} : n \in 0..MaxMixed, e \in ExtraNames}

RECURSIVE BinarySuffixes(_)
BinarySuffixes(len) ==
    IF len = 0 THEN {<<>>}
    ELSE BinarySuffixes(len - 1)
         \cup {s \o <<d>> : s \in BinarySuffixes(len - 1), d \in {ZERO, ZERO + 1}}

\* "01", "10", "2", "999", "1000", "x", "1x", "-1" and "1_0".
OddSuffixes ==
    { <<48, 49>>, <<49, 48>>, <<50>>, <<57, 57, 57>>, <<49, 48, 48, 48>>,
      <<120>>, <<49, 120>>, <<45, 49>>, <<49, 95, 48>> }

NamePool ==
    {InputName(s) : s \in BinarySuffixes(MaxSuffixLen) \cup OddSuffixes}
    \cup {OUTPUT_NAME}

SmallDirectories == {d \in SUBSET NamePool : Cardinality(d) <= MaxPermuted}

\* The orders in which glob may list a set of entries: every order of a small
\* set, one order and its reverse of a larger one.
RECURSIVE Perms(_)
Perms(S) ==
    IF S = {} THEN {<<>>}
    ELSE UNION {{<<e>> \o p : p \in Perms(S \ {e})} : e \in S}

RECURSIVE SomeOrder(_)
SomeOrder(S) ==
    IF S = {} THEN <<>>
    ELSE LET e == CHOOSE e \in S : TRUE IN <<e>> \o SomeOrder(S \ {e})

Reverse(s) == [k \in 1..Len(s) |-> s[Len(s) + 1 - k]]

Listings(S) ==
    IF Cardinality(S) <= MaxPermuted THEN Perms(S)
    ELSE {SomeOrder(S), Reverse(SomeOrder(S))}

\* ------------------------------------------------------------------ Init

FreshRun ==
    /\ pc = "start"
    /\ result = "running"
    /\ stages = <<>>
    /\ writes = 0
    /\ image_paths = <<>>
    /\ panels = <<>>
    /\ row1 = <<>>
    /\ row2 = <<>>
    /\ canvas = NoCanvas
    /\ row = 0
    /\ row_start = NoRowStart
    /\ i = 0
    /\ x = 0
    /\ drawn = <<>>

InitIn(directories, profiles) ==
    /\ dirExists \in BOOLEAN
    /\ files \in (IF dirExists THEN directories ELSE {{}})
    /\ profile \in profiles
    /\ output = (IF OUTPUT_NAME \in files THEN Stale ELSE Absent)
    /\ output0 = output
    /\ run = 1
    /\ prev = NoOutcome
    /\ FreshRun

Init == InitIn(Directories, [0..(ProfilePeriod - 1) -> ImageKinds])

\* --------------------------------------------------------------- actions

\* The run enters a stage of the sequence discovery, preparation, layout,
\* rendering, finalization (or stays in the one it is in).
Enter(stage) ==
    stages' = (IF stages # <<>> /\ stages[Len(stages)] = stage THEN stages
               ELSE Append(stages, stage))

CurrentRow == IF row = 2 THEN row2 ELSE row1

\* if not ASSETS_BASE.exists(): return 1
CheckDirMissing ==
    /\ pc = "start"
    /\ ~dirExists
    /\ pc' = "done"
    /\ result' = "return1"
    /\ Enter("discovery")
    /\ UNCHANGED <<env, files, output, run, prev, output0, writes, locals>>

CheckDirOk ==
    /\ pc = "start"
    /\ dirExists
    /\ pc' = "discover"
    /\ Enter("discovery")
    /\ UNCHANGED <<env, files, output, run, prev, result, output0, writes, locals>>

\* The early exit with the status of success.
MUT_DiscoverNone ==
    /\ pc = "discover"
    /\ Glob(files) = {}
    /\ pc' = "done"
    /\ result' = "return0"
    /\ Enter("discovery")
    /\ UNCHANGED <<env, files, output, run, prev, output0, writes, locals>>

\* image_paths = discover_images(); if not image_paths: return 1
DiscoverNone ==
    /\ pc = "discover"
    /\ Glob(files) = {}
    /\ pc' = "done"
    /\ result' = "return1"
    /\ Enter("discovery")
    /\ UNCHANGED <<env, files, output, run, prev, output0, writes, locals>>

DiscoverSome ==
    /\ pc = "discover"
    /\ Glob(files) # {}
    /\ \E listing \in Listings(Glob(files)) :
          image_paths' = discover_images(listing)
    /\ pc' = "prepare"
    /\ Enter("discovery")
    /\ UNCHANGED <<env, files, output, run, prev, result, output0, writes,
                   panels, row1, row2, canvas, row, row_start, i, x, drawn>>

\* One pass of the loop over image_paths: load_and_prepare, resize_to_height,
\* panels.append.
PrepareOne ==
    /\ pc = "prepare"
    /\ Len(panels) < Len(image_paths)
    /\ LET img == ImageOf(image_paths[Len(panels) + 1])
       IN /\ img.ok
          /\ panels' = Append(panels, resize_to_height(img, PIPELINE_HEIGHT))
    /\ pc' = (IF Len(panels) + 1 = Len(image_paths) THEN "layout" ELSE "prepare")
    /\ Enter("preparation")
    /\ UNCHANGED <<env, files, output, run, prev, result, output0, writes,
                   image_paths, row1, row2, canvas, row, row_start, i, x, drawn>>

\* Image.open raises on a file that is no image: the exception leaves main().
PrepareFails ==
    /\ pc = "prepare"
    /\ Len(panels) < Len(image_paths)
    /\ ~ImageOf(image_paths[Len(panels) + 1]).ok
    /\ pc' = "done"
    /\ result' = "raised"
    /\ Enter("preparation")
    /\ UNCHANGED <<env, files, output, run, prev, output0, writes, locals>>

\* The split into rows and the allocation of the canvas.
Layout ==
    /\ pc = "layout"
    /\ row1' = Row1Of(panels)
    /\ row2' = Row2Of(panels)
    /\ canvas' = [w |-> total_width(Row1Of(panels), Row2Of(panels)),
                  h |-> total_height(Row2Of(panels))]
    /\ pc' = "row1"
    /\ Enter("layout")
    /\ UNCHANGED <<env, files, output, run, prev, result, output0, writes,
                   image_paths, panels, row, row_start, i, x, drawn>>

\* draw_row(row1, y1, step_start=1, start_x=PADDING), up to its loop.
BeginRow1 ==
    /\ pc = "row1"
    /\ row' = 1
    /\ row_start' = [x |-> PADDING, y |-> PADDING, step |-> 1]
    /\ x' = PADDING
    /\ i' = 0
    /\ pc' = "draw"
    /\ Enter("rendering")
    /\ UNCHANGED <<env, files, output, run, prev, result, output0, writes,
                   image_paths, panels, row1, row2, canvas, drawn>>

\* One pass of the loop of draw_row.
DrawStep ==
    /\ pc = "draw"
    /\ i < Len(CurrentRow)
    /\ drawn' = drawn \o RowStepDraws(CurrentRow, i, x, row_start.y,
                                      row_start.step, row)
    /\ x' = RowStepCursor(CurrentRow, i, x)
    /\ i' = i + 1
    /\ Enter("rendering")
    /\ UNCHANGED <<env, files, output, run, prev, pc, result, output0, writes,
                   image_paths, panels, row1, row2, canvas, row, row_start>>

\* if row2: draw_row(row2, y2, step_start=len(row1) + 1, start_x=row2_start_x)
BeginRow2 ==
    /\ pc = "draw"
    /\ row = 1
    /\ i = Len(row1)
    /\ row2 # <<>>
    /\ row' = 2
    /\ row_start' = [x |-> row2_start_x(row1, row2),
                     y |-> PADDING + PIPELINE_HEIGHT + ROW_GAP,
                     step |-> Len(row1) + 1]
    /\ x' = row2_start_x(row1, row2)
    /\ i' = 0
    /\ Enter("rendering")
    /\ UNCHANGED <<env, files, output, run, prev, pc, result, output0, writes,
                   image_paths, panels, row1, row2, canvas, drawn>>

\* The last draw_row returned.
EndRendering ==
    /\ pc = "draw"
    /\ i = Len(CurrentRow)
    /\ row = 2 \/ row2 = <<>>
    /\ pc' = "finalize"
    /\ Enter("rendering")
    /\ UNCHANGED <<env, files, output, run, prev, result, output0, writes, locals>>

\* The canvas scaled by 2 and saved at OUTPUT_PATH; return 0.
Finalize ==
    /\ pc = "finalize"
    /\ output' = [present |-> TRUE, w |-> canvas.w * scale,
                  h |-> canvas.h * scale, drawn |-> drawn]
    /\ files' = files \cup {OUTPUT_NAME}
    /\ writes' = writes + 1
    /\ pc' = "done"
    /\ result' = "return0"
    /\ Enter("finalization")
    /\ UNCHANGED <<env, run, prev, output0, locals>>

\* The script is run again over what the last run left in the directory.
NextRun ==
    /\ pc = "done"
    /\ run < MaxRuns
    /\ run' = run + 1
    /\ prev' = Outcome
    /\ output0' = output
    /\ pc' = "start"
    /\ result' = "running"
    /\ stages' = <<>>
    /\ writes' = 0
    /\ image_paths' = <<>>
    /\ panels' = <<>>
    /\ row1' = <<>>
    /\ row2' = <<>>
    /\ canvas' = NoCanvas
    /\ row' = 0
    /\ row_start' = NoRowStart
    /\ i' = 0
    /\ x' = 0
    /\ drawn' = <<>>
    /\ UNCHANGED <<env, files, output>>

Next ==
    \/ CheckDirMissing
    \/ CheckDirOk
    \/ DiscoverNone
    \/ DiscoverSome
    \/ PrepareOne
    \/ PrepareFails
    \/ Layout
    \/ BeginRow1
    \/ DrawStep
    \/ BeginRow2
    \/ EndRendering
    \/ Finalize
    \/ NextRun

Spec == Init /\ [][Next]_vars

\* discover_images over every small directory of the name pool.
InitDiscover ==
    InitIn(SmallDirectories, {[k \in 0..(ProfilePeriod - 1) |->
                                 [ok |-> TRUE, w |-> 11, h |-> PIPELINE_HEIGHT]]})

NextDiscover == CheckDirMissing \/ CheckDirOk \/ DiscoverNone \/ DiscoverSome

SpecDiscover == InitDiscover /\ [][NextDiscover]_vars

\* resize_to_height over every original size of the bounded range, and over
\* heights at and around PIPELINE_HEIGHT.
ResizeImages ==
    {[ok |-> TRUE, w |-> w, h |-> h] :
        w \in 1..MaxDim,
        h \in (1..MaxDim) \cup {PIPELINE_HEIGHT - 1, PIPELINE_HEIGHT,
                                PIPELINE_HEIGHT + 1, 2 * PIPELINE_HEIGHT}}

InitResize ==
    InitIn({SeriesDir(1)}, {[k \in 0..(ProfilePeriod - 1) |-> img] : img \in ResizeImages})

NextResize == CheckDirMissing \/ CheckDirOk \/ DiscoverSome \/ PrepareOne

SpecResize == InitResize /\ [][NextResize]_vars

\* ------------------------------------------------------------------------
\* Properties of discovery (checked under SpecDiscover)
\* ------------------------------------------------------------------------

\* What the * of IMAGE_GLOB stands for in a matching name.
GlobSuffix(name) == SubSeq(name, Len(GA_image) + 1, Len(name) - Len(DOT_PNG))

\* The suffix is absent or a number.
HasNumber(name) == GlobSuffix(name) = <<>> \/ ParseInt(GlobSuffix(name)).ok

\* The numeric suffix of a name, an absent one counting as 0.
NumberOf(name) ==
    IF GlobSuffix(name) = <<>> THEN 0 ELSE ParseInt(GlobSuffix(name)).val

\* The name without its ".png".
NameOf(name) == SubSeq(name, 1, Len(name) - Len(DOT_PNG))

\* discover_images has returned and main() goes on with its result.
Discovered == pc = "prepare" /\ panels = <<>>

C3_NonNumericLast ==
    Discovered =>
        /\ InputName(<<>>) \in files => image_paths[1] = InputName(<<>>)
        /\ \A a, b \in 1..Len(image_paths) :
              (~HasNumber(image_paths[a]) /\ HasNumber(image_paths[b])) => b < a

\* ------------------------------------------------------------------------
\* Properties of preparation (checked under SpecResize)
\* ------------------------------------------------------------------------

\* The original size of the image panel k was prepared from.
OriginalOf(k) == ImageOf(image_paths[k])

\* C4 (as claimed): a prepared panel has the height PIPELINE_HEIGHT and the
\* width round(w * PIPELINE_HEIGHT / h): no integer is nearer to the
\* proportional width than the panel's width.
C4_RoundedWidth ==
    \A k \in 1..Len(panels) :
        /\ panels[k].h = PIPELINE_HEIGHT
        /\ LET exact == OriginalOf(k).w * PIPELINE_HEIGHT
               got == panels[k].w * OriginalOf(k).h
           IN 2 * (IF exact >= got THEN exact - got ELSE got - exact)
                 <= OriginalOf(k).h

\* C4 (amended): a prepared panel has the height PIPELINE_HEIGHT and the
\* width floor(w * PIPELINE_HEIGHT / h): the proportional width with its
\* fraction cut off.
C4_TruncatedWidth ==
    \A k \in 1..Len(panels) :
        /\ panels[k].h = PIPELINE_HEIGHT
        /\ panels[k].w * OriginalOf(k).h <= OriginalOf(k).w * PIPELINE_HEIGHT
        /\ OriginalOf(k).w * PIPELINE_HEIGHT < (panels[k].w + 1) * OriginalOf(k).h

\* A panel was prepared from an image whose proportional width has a
\* fraction above one half.
C4_Witness ==
    /\ Len(panels) = 1
    /\ OriginalOf(1).h # PIPELINE_HEIGHT
    /\ 2 * ((OriginalOf(1).w * PIPELINE_HEIGHT) % OriginalOf(1).h) > OriginalOf(1).h

\* ------------------------------------------------------------------------
\* Properties of a run of main() (checked under Spec)
\* ------------------------------------------------------------------------

StageOrder == <<"discovery", "preparation", "layout", "rendering", "finalization">>

\* The stages entered so far are the first ones of the sequence, each once.
StagesInOrder ==
    /\ Len(stages) <= Len(StageOrder)
    /\ stages = SubSeq(StageOrder, 1, Len(stages))

\* The assets directory exists and at least one entry matches the pattern.
Matching == dirExists /\ Glob(files) # {}

\* Every matching entry is a file Image.open decodes.
Decodable == \A f \in Glob(files) : ImageOf(f).ok

\* The run has not touched the output file.
Untouched == writes = 0 /\ output = output0

\* C1 (as claimed): the output file is written if and only if the directory
\* exists and a file matches, and then the run returns 0 after the single
\* write; otherwise it returns 1 and leaves the output file as it was. These
\* are the only two ends of the sequence of stages, and no stage is re-entered.
C1_TwoExits ==
    /\ StagesInOrder
    /\ pc # "done" => (result = "running" /\ Untouched)
    /\ pc = "done" =>
          /\ result \in {"return0", "return1"}
          /\ writes > 0 <=> Matching
          /\ Matching =>
                (result = "return0" /\ writes = 1 /\ output.present
                 /\ stages = StageOrder)
          /\ ~Matching =>
                (result = "return1" /\ Untouched /\ stages = <<"discovery">>)

\* C1 (amended): the output file is written if and only if the directory
\* exists, a file matches and every matching file is decoded, and then the
\* run returns 0 after the single write; when the directory is missing or no
\* file matches the run returns 1; when a matching file is not decoded the run
\* ends in preparation with the exception; in both cases the output file is
\* left as it was. No stage is re-entered.
C1_ThreeExits ==
    /\ StagesInOrder
    /\ pc # "done" => (result = "running" /\ Untouched)
    /\ pc = "done" =>
          /\ result \in {"return0", "return1", "raised"}
          /\ writes > 0 <=> (Matching /\ Decodable)
          /\ (Matching /\ Decodable) =>
                (result = "return0" /\ writes = 1 /\ output.present
                 /\ stages = StageOrder)
          /\ ~Matching =>
                (result = "return1" /\ Untouched /\ stages = <<"discovery">>)
          /\ (Matching /\ ~Decodable) =>
                (result = "raised" /\ Untouched
                 /\ stages = <<"discovery", "preparation">>)

\* A run over a directory that already held an output file has replaced it
\* and returned 0.
C1_Witness ==
    /\ pc = "done"
    /\ result = "return0"
    /\ run = 1
    /\ output0 = Stale
    /\ output # output0

\* The width of a row as the layout defines it: every panel with its letter
\* gutter, and an arrow between two panels.
RECURSIVE GutteredWidths(_, _)
GutteredWidths(r, n) ==
    IF n = 0 THEN 0 ELSE LETTER_WIDTH + r[n].w + GutteredWidths(r, n - 1)

ClaimedRowWidth(r) == GutteredWidths(r, Len(r)) + ARROW_WIDTH * (Len(r) - 1)

\* C5: the canvas is max(row1_width, row2_width) + 2 * PADDING wide and
\* PIPELINE_HEIGHT + 2 * PADDING high when row 2 is empty,
\* 2 * PIPELINE_HEIGHT + ROW_GAP + 2 * PADDING high when it is not.
C5_CanvasSize ==
    canvas # NoCanvas =>
        /\ row1 # <<>>
        /\ canvas.w = (IF ClaimedRowWidth(row1) >= ClaimedRowWidth(row2)
                       THEN ClaimedRowWidth(row1) ELSE ClaimedRowWidth(row2))
                      + 2 * PADDING
        /\ canvas.h = (IF row2 = <<>> THEN PIPELINE_HEIGHT + 2 * PADDING
                       ELSE 2 * PIPELINE_HEIGHT + ROW_GAP + 2 * PADDING)

\* A canvas was allocated for two rows of which the second is the wider.
C5_Witness ==
    /\ canvas # NoCanvas
    /\ row2 # <<>>
    /\ ClaimedRowWidth(row2) > ClaimedRowWidth(row1)

Letters == SelectSeq(drawn, LAMBDA e : e.kind = "letter")

PastedPanels == SelectSeq(drawn, LAMBDA e : e.kind = "panel")

\* The k-th capital letter, or the decimal numeral of k past 26.
ClaimedLabel(k) ==
    IF k <= 26 THEN <<64 + k>>
    ELSE IF k < 100 THEN <<48 + (k \div 10), 48 + (k % 10)>>
    ELSE <<48 + (k \div 100), 48 + ((k \div 10) % 10), 48 + (k % 10)>>

\* C6: row 1 holds the first min(3, N) panels and row 2 the others, in the
\* discovered order; the panel at position k of that order is labelled with
\* the k-th capital letter up to 26 and with the numeral of k past 26, so the
\* labels of a run differ from one another and follow the discovered order.
C6_RowsAndLabels ==
    /\ canvas # NoCanvas =>
          /\ Len(panels) = Len(image_paths)
          /\ \A k \in 1..Len(panels) :
                panels[k] = resize_to_height(ImageOf(image_paths[k]), PIPELINE_HEIGHT)
          /\ Len(row1) = (IF Len(panels) < 3 THEN Len(panels) ELSE 3)
          /\ row1 \o row2 = panels
    /\ \A k \in 1..Len(Letters) :
          /\ Letters[k].step = k
          /\ Letters[k].text = ClaimedLabel(k)
          /\ Letters[k].row = (IF k <= 3 THEN 1 ELSE 2)
    /\ \A k \in 1..Len(PastedPanels) :
          /\ PastedPanels[k].step = k
          /\ PastedPanels[k].row = Letters[k].row
          /\ PastedPanels[k].w = panels[k].w
          /\ PastedPanels[k].x = Letters[k].x + LETTER_WIDTH
    /\ \A j, k \in 1..Len(Letters) : j # k => Letters[j].text # Letters[k].text
    /\ (pc = "done" /\ result = "return0") =>
          (Len(Letters) = Len(panels) /\ Len(PastedPanels) = Len(panels))

\* A run over more than 26 images has labelled them all.
C6_Witness ==
    /\ pc = "done"
    /\ result = "return0"
    /\ Len(Letters) > 26

\* C7 (as claimed): whenever row 2 is drawn, its horizontal midpoint is
\* within one pixel of the midpoint of row 1.
C7_Row2Centered ==
    row = 2 =>
        LET mid1x2 == 2 * PADDING + ClaimedRowWidth(row1)
            mid2x2 == 2 * row_start.x + ClaimedRowWidth(row2)
        IN (IF mid1x2 >= mid2x2 THEN mid1x2 - mid2x2 ELSE mid2x2 - mid1x2) <= 2

Arrows == {j \in 1..Len(drawn) : drawn[j].kind = "arrow"}

ArrowsOfRow(r) == {j \in Arrows : drawn[j].row = r}

PanelsOfRow(r) == IF r = 1 THEN row1 ELSE row2

\* The step of the last panel of a row.
LastStepOfRow(r) == IF r = 1 THEN Len(row1) ELSE Len(row1) + Len(row2)

\* draw_row has gone through all the panels of the row.
RowFinished(r) ==
    /\ pc \in {"draw", "finalize", "done"}
    /\ \/ row > r
       \/ row = r /\ i = Len(CurrentRow)

\* C8: in a row of c panels exactly c - 1 arrows are drawn, each right after
\* a panel that has a successor in the row and across the ARROW_WIDTH gap from
\* that panel's right edge to the next panel's letter gutter; none is drawn
\* after the last panel of a row nor between the rows, so a run over N panels
\* draws N minus the number of non-empty rows arrows.
C8_ArrowsBetweenPanels ==
    /\ \A j \in Arrows :
          /\ j > 1
          /\ drawn[j - 1].kind = "panel"
          /\ drawn[j - 1].row = drawn[j].row
          /\ drawn[j - 1].step = drawn[j].step
          /\ drawn[j].step < LastStepOfRow(drawn[j].row)
          /\ drawn[j].x = drawn[j - 1].x + drawn[j - 1].w
          /\ drawn[j].w = ARROW_WIDTH
          /\ j < Len(drawn) =>
                /\ drawn[j + 1].kind = "letter"
                /\ drawn[j + 1].row = drawn[j].row
                /\ drawn[j + 1].step = drawn[j].step + 1
                /\ drawn[j + 1].x = drawn[j].x + ARROW_WIDTH
    /\ \A j \in 1..Len(drawn) :
          (drawn[j].kind = "panel" /\ drawn[j].step < LastStepOfRow(drawn[j].row))
             => (j < Len(drawn) /\ drawn[j + 1].kind = "arrow")
    /\ \A r \in {1, 2} :
          (RowFinished(r) /\ PanelsOfRow(r) # <<>>) =>
             Cardinality(ArrowsOfRow(r)) = Len(PanelsOfRow(r)) - 1
    /\ (pc = "done" /\ result = "return0") =>
          Cardinality(Arrows) = Len(panels) - (IF row2 = <<>> THEN 1 ELSE 2)

\* Both rows were drawn, the second one with several panels.
C8_Witness ==
    /\ pc = "done"
    /\ result = "return0"
    /\ Len(row1) = 3
    /\ Len(row2) >= 2
    /\ Cardinality(ArrowsOfRow(2)) = Len(row2) - 1

\* C9: a run over the directory an earlier run left behind, output file
\* included and however glob lists the entries, ends as the earlier run did:
\* the same sequence of images, rows, labels, offsets, canvas and output.
C9_SameOutcome ==
    (run > 1 /\ pc = "done") => Outcome = prev

\* A second run found the output file the first run wrote and drew two rows.
C9_Witness ==
    /\ run = 2
    /\ pc = "done"
    /\ result = "return0"
    /\ prev.result = "return0"
    /\ output0.present /\ output0.drawn # <<>>
    /\ row2 # <<>>

PanelEntries == {j \in 1..Len(drawn) : drawn[j].kind = "panel"}

\* C10: while rendering, every panel with its letter gutter lies between the
\* paddings of the canvas, horizontally and vertically, no two of them
\* overlap, and when a row is finished the cursor is at the row's start plus
\* the row's width.
C10_PanelsInsideCanvas ==
    /\ \A j \in PanelEntries :
          /\ j > 1
          /\ drawn[j - 1].kind = "letter"
          /\ drawn[j - 1].x + LETTER_WIDTH = drawn[j].x
          /\ drawn[j - 1].y = drawn[j].y
          /\ drawn[j - 1].x >= PADDING
          /\ drawn[j].x + drawn[j].w <= canvas.w - PADDING
          /\ drawn[j].y >= PADDING
          /\ drawn[j].y + drawn[j].h <= canvas.h - PADDING
    /\ \A j, k \in PanelEntries :
          j # k =>
             \/ drawn[j].x + drawn[j].w <= drawn[k].x - LETTER_WIDTH
             \/ drawn[k].x + drawn[k].w <= drawn[j].x - LETTER_WIDTH
             \/ drawn[j].y + drawn[j].h <= drawn[k].y
             \/ drawn[k].y + drawn[k].h <= drawn[j].y
    /\ (pc = "draw" /\ i = Len(CurrentRow)) =>
          x = row_start.x + ClaimedRowWidth(CurrentRow)

\* Row 2 was finished, narrower than row 1 by an odd number of pixels.
C10_Witness ==
    /\ pc = "draw"
    /\ row = 2
    /\ i = Len(row2)
    /\ ClaimedRowWidth(row2) < ClaimedRowWidth(row1)
    /\ (ClaimedRowWidth(row1) - ClaimedRowWidth(row2)) % 2 = 1

====
